---- MODULE Spec2Model ----
(***************************************************************************)
(* Movie Tracker Bot (lorettef/tgbot): the dispatch loop of main, the       *)
(* conversationStates map, the watched table and the handlers of            *)
(* src/unnamed/part_000.                                                    *)
(*                                                                          *)
(* A Go string is modelled as a sequence of tokens.  A token is one         *)
(* character (" ", "-", "+", a digit, a letter) or one command keyword      *)
(* ("/add" stands for the four characters of that literal).                 *)
(***************************************************************************)
EXTENDS Integers, Sequences, FiniteSets, TLC

(***************************************************************************)
(* Bounds of the model                                                      *)
(***************************************************************************)
\* rows the watched table may hold before further inserts are cut off
MaxRows == 2
\* time.Now() yields a stamp in 1..MaxTime
MaxTime == 2
\* length of the longest popular list of the /top feeds of SpecTop
MaxTopLen == 11
\* the popularity scores of those feeds are in 0..PopMod-1
PopMod == 4

(***************************************************************************)
(* Program constants                                                        *)
(***************************************************************************)
TopLimit == 20
SearchLimit == 5

Users == {1, 2}

(***************************************************************************)
(* strings, strconv                                                         *)
(***************************************************************************)
HasPrefix(s, prefix) ==
    /\ Len(s) >= Len(prefix)
    /\ SubSeq(s, 1, Len(prefix)) = prefix

TrimPrefix(s, prefix) ==
    IF HasPrefix(s, prefix) THEN SubSeq(s, Len(prefix) + 1, Len(s)) ELSE s

RECURSIVE FieldsFrom(_, _, _)
FieldsFrom(s, i, cur) ==
    IF i > Len(s)
    THEN IF cur = <<>> THEN <<>> ELSE <<cur>>
    ELSE IF s[i] = " "
         THEN IF cur = <<>>
              THEN FieldsFrom(s, i + 1, <<>>)
              ELSE <<cur>> \o FieldsFrom(s, i + 1, <<>>)
         ELSE FieldsFrom(s, i + 1, Append(cur, s[i]))

\* strings.Fields: the maximal runs of non-space characters
Fields(s) == FieldsFrom(s, 1, <<>>)

RECURSIVE Join(_, _)
\* strings.Join
Join(parts, sep) ==
    IF parts = <<>> THEN <<>>
    ELSE IF Len(parts) = 1 THEN parts[1]
    ELSE parts[1] \o sep \o Join(Tail(parts), sep)

DigitVal == ("0" :> 0) @@ ("1" :> 1) @@ ("2" :> 2) @@ ("3" :> 3) @@ ("4" :> 4)
            @@ ("5" :> 5) @@ ("6" :> 6) @@ ("7" :> 7) @@ ("8" :> 8) @@ ("9" :> 9)

RECURSIVE DecimalValue(_, _)
DecimalValue(digits, acc) ==
    IF digits = <<>> THEN acc
    ELSE DecimalValue(Tail(digits), acc * 10 + DigitVal[Head(digits)])

\* strconv.Atoi: an optional sign, then one or more decimal digits.  The
\* texts of the model have at most two digits, so the range error of a value
\* beyond 64 bits does not arise.
Atoi(s) ==
    LET signed == s # <<>> /\ s[1] \in {"+", "-"}
        digits == IF signed THEN Tail(s) ELSE s
        wellFormed == /\ digits # <<>>
                      /\ \A i \in 1..Len(digits) : digits[i] \in DOMAIN DigitVal
        magnitude == IF wellFormed THEN DecimalValue(digits, 0) ELSE 0
        value == IF signed /\ s[1] = "-" THEN 0 - magnitude ELSE magnitude
    IN  [err |-> ~wellFormed, val |-> value]

min(a, b) == IF a < b THEN a ELSE b

(***************************************************************************)
(* The catalog (TMDb), an external collaborator: every call answers with an *)
(* error or with a result list the model draws from a bounded set.          *)
(***************************************************************************)
Item(id, title, name, mediaType, posterPath, popularity) ==
    [ID |-> id, Title |-> title, Name |-> name, MediaType |-> mediaType,
     PosterPath |-> posterPath, Popularity |-> popularity]

\* a movie; a show with the same id (movie and tv ids are separate id spaces)
\* and no poster; a second show of the same name; a person (search/multi
\* returns people too, who carry a name and no title)
MovieAB == Item(1, <<"A", " ", "B">>, <<>>, "movie", "/p", 3)
ShowA1 == Item(1, <<>>, <<"A">>, "tv", "", 2)
ShowA2 == Item(2, <<>>, <<"A">>, "tv", "/p", 1)
PersonB == Item(3, <<>>, <<"B">>, "person", "", 0)

CatalogItems == {MovieAB, ShowA1, ShowA2, PersonB}

Response(err, results) == [err |-> err, Results |-> results]

Failed == Response(TRUE, <<>>)

SearchResponses ==
    {Failed, Response(FALSE, <<>>)}
    \cup {Response(FALSE, <<it>>) : it \in CatalogItems}
    \cup {Response(FALSE, <<MovieAB, ShowA1, ShowA2, PersonB, MovieAB, ShowA1>>)}

\* the inbound texts of the model
Texts ==
    {<<"/start">>, <<"/list">>, <<"/top">>, <<"x">>,
     <<"/add">>, <<"/add", " ">>, <<"/add", " ", "A">>,
     <<"/search", " ">>, <<"/search", " ", "A">>,
     <<"/update", " ", "A">>,
     <<"/update", " ", "A", " ", "1", "2">>,
     <<"/update", " ", "A", " ", " ", "B", " ", "1", "2">>,
     <<"/update", " ", "A", " ", "-", "1">>,
     <<"5">>, <<"-", "1">>}

\* the texts of SpecList
ListTexts == {<<"/add", " ", "A">>, <<"5">>, <<"/list">>}

\* what time.Now() may yield: any stamp of 1..MaxTime; one stamp only
Clock == 1..MaxTime
Epoch == {1}

VARIABLES
    conversationStates,  \* map[int64]ConversationState
    watched,             \* the rows of table watched, in rowid order
    last,                \* the update the loop handled last
    calls,               \* the calls to the catalog and the store made while
                         \* handling it, with their outcomes
    sent,                \* what bot.Send was given while handling it
    listed,              \* the lines handleList wrote into its response
    top,                 \* allResults of handleTop, before and after the sort
    updates,             \* the updates that arrived on the channel, in
                         \* arrival order
    taken,               \* how many of them the loop has received
    running              \* the handler calls that have not returned

vars == <<conversationStates, watched, last, calls, sent, listed, top,
          updates, taken, running>>

\* the channel and the call stack, which a specification that takes a whole
\* loop iteration as one step leaves alone
loopVars == <<updates, taken, running>>

ConversationState(tmdbID, title, mediaType) ==
    [AwaitingEpisode |-> TRUE, TMDBID |-> tmdbID, Title |-> title,
     MediaType |-> mediaType]

NoEpisode == 0 - 1

NoItem == Item(0, <<>>, <<>>, "", "", 0)

\* one bot.Send: its addressee, whether it is a text or a photo, which of the
\* program's message formats it is, and the values formatted into it
Msg(chatID, kind, msg, title, episode, item) ==
    [to |-> chatID, kind |-> kind, msg |-> msg, title |-> title,
     episode |-> episode, item |-> item]

\* sendMessage with one of the fixed texts of the program
Text(chatID, msg) == Msg(chatID, "text", msg, <<>>, NoEpisode, NoItem)

NoTop == [merged |-> <<>>, sorted |-> <<>>]

\* one call to a collaborator and its outcome
Call(name, err, results) == [call |-> name, err |-> err, Results |-> results]

\* who sent the text, which handler took it, and the map and the table as
\* they were when it arrived
Handled(chatID, text, handler) ==
    [chatID |-> chatID, text |-> text, handler |-> handler,
     states |-> conversationStates, rows |-> watched]

Init ==
    /\ conversationStates = <<>>
    /\ watched = <<>>
    /\ last = Handled(0, <<>>, "none")
    /\ calls = <<>>
    /\ sent = <<>>
    /\ listed = <<>>
    /\ top = NoTop
    /\ updates = <<>>
    /\ taken = 0
    /\ running = <<>>

(***************************************************************************)
(* The Go map and the SQL statements                                        *)
(***************************************************************************)
\* conversationStates[chatID] = state
MapSet(m, k, v) == [x \in DOMAIN m \cup {k} |-> IF x = k THEN v ELSE m[x]]

\* delete(conversationStates, chatID)
MapDelete(m, k) == [x \in DOMAIN m \ {k} |-> m[x]]

\* Insert with the episode left to the column default
InsertDefaultEpisode(table, title, mediaType, tmdbID, userID, now, episode) ==
    Append(table, [id |-> Len(table) + 1, title |-> title,
                   media_type |-> mediaType, tmdb_id |-> tmdbID,
                   user_id |-> userID, watched_at |-> now,
                   current_episode |-> 0])

\* INSERT INTO watched (...) VALUES (...): id is AUTOINCREMENT and no row is
\* ever deleted, so the new rowid is the number of rows plus one
Insert(table, title, mediaType, tmdbID, userID, now, episode) ==
    Append(table, [id |-> Len(table) + 1, title |-> title,
                   media_type |-> mediaType, tmdb_id |-> tmdbID,
                   user_id |-> userID, watched_at |-> now,
                   current_episode |-> episode])

\* MatchingRows without the user
MatchingRowsAnyUser(table, userID, title) ==
    {i \in DOMAIN table : table[i].title = title}

\* SELECT ... WHERE user_id = ? AND title = ?: the matching rowids
MatchingRows(table, userID, title) ==
    {i \in DOMAIN table : table[i].user_id = userID /\ table[i].title = title}

\* QueryRow scans the first row of the result; the table has no index, so the
\* scan is in rowid order and the first row is the one of least rowid.
\* 0 stands for sql.ErrNoRows.
QueryRow(table, userID, title) ==
    LET m == MatchingRows(table, userID, title)
    IN  IF m = {} THEN 0 ELSE CHOOSE i \in m : \A j \in m : i <= j

\* Update without the user in the WHERE clause
UpdateAnyUser(table, episode, userID, tmdbID) ==
    [i \in DOMAIN table |->
        IF table[i].tmdb_id = tmdbID
        THEN [table[i] EXCEPT !.current_episode = episode]
        ELSE table[i]]

\* Update of the first row that matches only
UpdateOneRow(table, episode, userID, tmdbID) ==
    [i \in DOMAIN table |->
        IF /\ table[i].user_id = userID
           /\ table[i].tmdb_id = tmdbID
           /\ \A j \in 1..(i - 1) :
                  ~(table[j].user_id = userID /\ table[j].tmdb_id = tmdbID)
        THEN [table[i] EXCEPT !.current_episode = episode]
        ELSE table[i]]

\* UPDATE watched SET current_episode = ? WHERE user_id = ? AND tmdb_id = ?
Update(table, episode, userID, tmdbID) ==
    [i \in DOMAIN table |->
        IF table[i].user_id = userID /\ table[i].tmdb_id = tmdbID
        THEN [table[i] EXCEPT !.current_episode = episode]
        ELSE table[i]]

\* ... WHERE user_id = ?
RowsOf(table, userID) == SelectSeq(table, LAMBDA r : r.user_id = userID)

\* ORDER BY watched_at ASC
IsOrderedAsc(rows) ==
    \A i, j \in DOMAIN rows : i < j => rows[i].watched_at <= rows[j].watched_at

\* ORDER BY watched_at DESC
IsOrderedDesc(rows) ==
    \A i, j \in DOMAIN rows : i < j => rows[i].watched_at >= rows[j].watched_at

\* the orders a SELECT ... ORDER BY watched_at DESC may return the rows in:
\* SQL leaves the order of rows of equal watched_at open
Orderings(rows) ==
    {o \in {[i \in DOMAIN rows |-> rows[p[i]]] : p \in Permutations(DOMAIN rows)} :
        IsOrderedDesc(o)}

(***************************************************************************)
(* handleAdd, handleEpisodeInput                                            *)
(*                                                                          *)
(* The answers of the collaborators are drawn where the code calls them:    *)
(* searchTMDB answers with one of SearchResponses, db.Exec and db.Query     *)
(* succeed or fail, time.Now() is a stamp in 1..MaxTime.                    *)
(***************************************************************************)
\* the confirmation: a photo when a poster path is at hand, else a text
Confirmation(chatID, withPoster, msg, title, episode) ==
    Msg(chatID, IF withPoster THEN "photo" ELSE "text", msg, title, episode,
        NoItem)

\* SaveMovie without the confirmation
SaveMovieUnconfirmed(chatID, results, result, title, times) ==
    \E execOk \in BOOLEAN :
        /\ calls' = <<Call("searchTMDB", FALSE, results.Results),
                      Call("Exec", ~execOk, <<>>)>>
        /\ IF ~execOk
           THEN /\ sent' = <<Text(chatID, "save_error")>>
                /\ UNCHANGED <<conversationStates, watched>>
           ELSE /\ Len(watched) < MaxRows
                /\ \E now \in times :
                       watched' = Insert(watched, title, result.MediaType,
                                         result.ID, chatID, now, 0)
                /\ sent' = <<>>
                /\ UNCHANGED conversationStates

\* the movie branch of handleAdd: the INSERT and what follows it
SaveMovie(chatID, results, result, title, times) ==
    \E execOk \in BOOLEAN :
        /\ calls' = <<Call("searchTMDB", FALSE, results.Results),
                      Call("Exec", ~execOk, <<>>)>>
        /\ IF ~execOk
           THEN /\ sent' = <<Text(chatID, "save_error")>>
                /\ UNCHANGED <<conversationStates, watched>>
           ELSE /\ Len(watched) < MaxRows
                /\ \E now \in times :
                       watched' = Insert(watched, title, result.MediaType,
                                         result.ID, chatID, now, 0)
                /\ sent' = <<Confirmation(chatID, result.PosterPath # "",
                                          "added", title, NoEpisode)>>
                /\ UNCHANGED conversationStates

\* AskEpisode with the movie title field in place of the show name
AskEpisodeMovieTitle(chatID, results, result, title) ==
    /\ calls' = <<Call("searchTMDB", FALSE, results.Results)>>
    /\ conversationStates' =
           MapSet(conversationStates, chatID,
                  ConversationState(result.ID, result.Title, result.MediaType))
    /\ sent' = <<Msg(chatID, "text", "episode_prompt", result.Title,
                     NoEpisode, NoItem)>>
    /\ UNCHANGED watched

\* the show branch of handleAdd
AskEpisode(chatID, results, result, title) ==
    /\ calls' = <<Call("searchTMDB", FALSE, results.Results)>>
    /\ conversationStates' =
           MapSet(conversationStates, chatID,
                  ConversationState(result.ID, title, result.MediaType))
    /\ sent' = <<Msg(chatID, "text", "episode_prompt", title, NoEpisode,
                     NoItem)>>
    /\ UNCHANGED watched

\* handleAdd without the test for the empty query
handleAddNoUsage(chatID, query, times) ==
    \E results \in SearchResponses :
        IF results.err \/ Len(results.Results) = 0
        THEN /\ sent' = <<Text(chatID, "nothing_found")>>
             /\ calls' = <<Call("searchTMDB", results.err, results.Results)>>
             /\ UNCHANGED <<conversationStates, watched>>
        ELSE LET result == results.Results[1]
                 title == IF result.MediaType = "tv" THEN result.Name
                          ELSE result.Title
             IN  IF result.MediaType = "tv"
                 THEN AskEpisode(chatID, results, result, title)
                 ELSE SaveMovie(chatID, results, result, title, times)

handleAdd(chatID, query, times) ==
    IF query = <<>>
    THEN /\ sent' = <<Text(chatID, "add_usage")>>
         /\ calls' = <<>>
         /\ UNCHANGED <<conversationStates, watched>>
    ELSE \E results \in SearchResponses :
        IF results.err \/ Len(results.Results) = 0
        THEN /\ sent' = <<Text(chatID, "nothing_found")>>
             /\ calls' = <<Call("searchTMDB", results.err, results.Results)>>
             /\ UNCHANGED <<conversationStates, watched>>
        ELSE LET result == results.Results[1]
                 title == IF result.MediaType = "tv" THEN result.Name
                          ELSE result.Title
             IN  IF result.MediaType = "tv"
                 THEN AskEpisode(chatID, results, result, title)
                 ELSE SaveMovie(chatID, results, result, title, times)

\* EpisodeInvalid without the sign test
EpisodeUnparsed(text) == Atoi(text).err

\* err != nil || episode < 0
EpisodeInvalid(text) == Atoi(text).err \/ Atoi(text).val < 0

\* PosterFound without the comparison of the ids
PosterFoundAnyID(results, state) ==
    /\ ~results.err
    /\ Len(results.Results) > 0
    /\ results.Results[1].PosterPath # ""

\* whether the poster re-fetch yields a poster for the confirmation
PosterFound(results, state) ==
    /\ ~results.err
    /\ Len(results.Results) > 0
    /\ results.Results[1].ID = state.TMDBID
    /\ results.Results[1].PosterPath # ""

\* SaveEpisode that clears the pending state before it looks at the outcome
\* of the INSERT
SaveEpisodeClearsFirst(chatID, episode, state, times) ==
    \E execOk \in BOOLEAN :
        /\ conversationStates' = MapDelete(conversationStates, chatID)
        /\ IF ~execOk
           THEN /\ sent' = <<Text(chatID, "save_error")>>
                /\ calls' = <<Call("Exec", TRUE, <<>>)>>
                /\ UNCHANGED watched
           ELSE /\ Len(watched) < MaxRows
                /\ \E now \in times :
                       watched' = Insert(watched, state.Title, state.MediaType,
                                         state.TMDBID, chatID, now, episode)
                /\ \E results \in SearchResponses :
                       /\ calls' = <<Call("Exec", FALSE, <<>>),
                                     Call("searchTMDB", results.err,
                                          results.Results)>>
                       /\ sent' = <<Confirmation(chatID,
                                                 PosterFound(results, state),
                                                 "added_episode", state.Title,
                                                 episode)>>

\* the INSERT of handleEpisodeInput and what follows it
SaveEpisode(chatID, episode, state, times) ==
    \E execOk \in BOOLEAN :
        IF ~execOk
        THEN /\ sent' = <<Text(chatID, "save_error")>>
             /\ calls' = <<Call("Exec", TRUE, <<>>)>>
             /\ UNCHANGED <<conversationStates, watched>>
        ELSE /\ Len(watched) < MaxRows
             /\ \E now \in times :
                    watched' = Insert(watched, state.Title, state.MediaType,
                                      state.TMDBID, chatID, now, episode)
             /\ conversationStates' = MapDelete(conversationStates, chatID)
             /\ \E results \in SearchResponses :
                    /\ calls' = <<Call("Exec", FALSE, <<>>),
                                  Call("searchTMDB", results.err,
                                       results.Results)>>
                    /\ sent' = <<Confirmation(chatID,
                                              PosterFound(results, state),
                                              "added_episode", state.Title,
                                              episode)>>

\* handleEpisodeInput that drops the pending state on an invalid answer
handleEpisodeInputGivesUp(chatID, text, state, times) ==
    IF EpisodeInvalid(text)
    THEN /\ sent' = <<Text(chatID, "invalid_episode")>>
         /\ calls' = <<>>
         /\ conversationStates' = MapDelete(conversationStates, chatID)
         /\ UNCHANGED watched
    ELSE SaveEpisode(chatID, Atoi(text).val, state, times)

handleEpisodeInput(chatID, text, state, times) ==
    IF EpisodeInvalid(text)
    THEN /\ sent' = <<Text(chatID, "invalid_episode")>>
         /\ calls' = <<>>
         /\ UNCHANGED <<conversationStates, watched>>
    ELSE SaveEpisode(chatID, Atoi(text).val, state, times)

(***************************************************************************)
(* handleList, handleSearch                                                 *)
(***************************************************************************)
\* one line of the list: the episode is printed for media_type "tv" only
Line(count, row) ==
    [count |-> count, title |-> row.title,
     kind |-> IF row.media_type = "tv" THEN "show" ELSE "movie",
     episode |-> IF row.media_type = "tv" THEN row.current_episode
                 ELSE NoEpisode,
     watched_at |-> row.watched_at]

\* the rows the SELECT of handleList returns, in one of the orders it may
\* return them in
Select(table, chatID) == Orderings(RowsOf(table, chatID))

\* handleList that says nothing when there is nothing to list
handleListQuietWhenEmpty(chatID) ==
    /\ UNCHANGED <<conversationStates, watched>>
    /\ \E queryOk \in BOOLEAN :
        /\ calls' = <<Call("Query", ~queryOk, <<>>)>>
        /\ IF ~queryOk
           THEN /\ sent' = <<Text(chatID, "list_error")>>
                /\ listed' = <<>>
           ELSE \E rows \in Select(watched, chatID) :
            /\ listed' = [i \in DOMAIN rows |-> Line(i, rows[i])]
            /\ sent' = IF Len(rows) = 0 THEN <<>>
                       ELSE <<Text(chatID, "list")>>

handleList(chatID) ==
    /\ UNCHANGED <<conversationStates, watched>>
    /\ \E queryOk \in BOOLEAN :
        /\ calls' = <<Call("Query", ~queryOk, <<>>)>>
        /\ IF ~queryOk
           THEN /\ sent' = <<Text(chatID, "list_error")>>
                /\ listed' = <<>>
           ELSE \E rows \in Select(watched, chatID) :
            /\ listed' = [i \in DOMAIN rows |-> Line(i, rows[i])]
            /\ sent' = <<Text(chatID, IF Len(rows) = 0 THEN "list_empty"
                                      ELSE "list")>>

\* title and poster of one result, as handleSearch and handleTop show it
ItemMsg(chatID, msg, result) ==
    Msg(chatID, IF result.PosterPath # "" THEN "photo" ELSE "text", msg,
        IF result.MediaType = "tv" THEN result.Name ELSE result.Title,
        NoEpisode, result)

\* handleSearch that records the first result, as handleAdd does
handleSearchAsAdd(chatID, query) == handleAdd(chatID, query, Epoch)

handleSearch(chatID, query) ==
    /\ UNCHANGED <<conversationStates, watched>>
    /\ IF query = <<>>
       THEN /\ sent' = <<Text(chatID, "search_usage")>>
            /\ calls' = <<>>
       ELSE \E results \in SearchResponses :
           /\ calls' = <<Call("searchTMDB", results.err, results.Results)>>
           /\ IF results.err \/ Len(results.Results) = 0
              THEN sent' = <<Text(chatID, "nothing_found")>>
              ELSE sent' = [i \in 1..min(SearchLimit, Len(results.Results)) |->
                               ItemMsg(chatID, "search_item",
                                       results.Results[i])]

(***************************************************************************)
(* handleTop                                                                *)
(***************************************************************************)
\* getTopMovies, getTopTVShows: the client stamps the kind on every result
Stamp(response, mediaType) ==
    [response EXCEPT !.Results =
        [i \in DOMAIN response.Results |->
            [response.Results[i] EXCEPT !.MediaType = mediaType]]]

Swap(results, a, b) ==
    [results EXCEPT ![a] = results[b], ![b] = results[a]]

\* BubblePass that stops one comparison early
RECURSIVE BubblePassShort(_, _, _)
BubblePassShort(results, i, j) ==
    IF j < Len(results) - i - 2
    THEN BubblePassShort(
             IF results[j + 1].Popularity < results[j + 2].Popularity
             THEN Swap(results, j + 1, j + 2)
             ELSE results,
             i, j + 1)
    ELSE results

\* the inner loop of the bubble sort, from j on (i and j count from 0, as in
\* the source; the sequence counts from 1)
RECURSIVE BubblePass(_, _, _)
BubblePass(results, i, j) ==
    IF j < Len(results) - i - 1
    THEN BubblePass(IF results[j + 1].Popularity < results[j + 2].Popularity
                    THEN Swap(results, j + 1, j + 2)
                    ELSE results,
                    i, j + 1)
    ELSE results

\* the outer loop, from i on
RECURSIVE BubbleFrom(_, _)
BubbleFrom(results, i) ==
    IF i < Len(results) - 1
    THEN BubbleFrom(BubblePass(results, i, 0), i + 1)
    ELSE results

sortResultsByPopularity(results) == BubbleFrom(results, 0)

\* the merge, the sort and the sends of handleTop
Rank(chatID, movies, shows) ==
    LET allResults == movies.Results \o shows.Results
        sorted == sortResultsByPopularity(allResults)
    IN  IF Len(allResults) = 0
        THEN /\ sent' = <<Text(chatID, "top_not_found")>>
             /\ top' = NoTop
        ELSE /\ top' = [merged |-> allResults, sorted |-> sorted]
             /\ sent' = [i \in 1..min(TopLimit, Len(sorted)) |->
                            ItemMsg(chatID, "top_item", sorted[i])]

\* handleTop that goes on with the movies when the shows cannot be fetched
handleTopMoviesOnly(chatID, movieFeeds, showFeeds) ==
    /\ UNCHANGED <<conversationStates, watched>>
    /\ \E movies \in movieFeeds :
        IF movies.err
        THEN /\ sent' = <<Text(chatID, "top_movies_error")>>
             /\ calls' = <<Call("getTopMovies", TRUE, <<>>)>>
             /\ top' = NoTop
        ELSE \E shows \in showFeeds :
            /\ calls' = <<Call("getTopMovies", FALSE, movies.Results),
                          Call("getTopTVShows", shows.err, shows.Results)>>
            /\ Rank(chatID, Stamp(movies, "movie"), Stamp(shows, "tv"))

\* movieFeeds, showFeeds: what the two popular-list calls may answer
handleTop(chatID, movieFeeds, showFeeds) ==
    /\ UNCHANGED <<conversationStates, watched>>
    /\ \E movies \in movieFeeds :
        IF movies.err
        THEN /\ sent' = <<Text(chatID, "top_movies_error")>>
             /\ calls' = <<Call("getTopMovies", TRUE, <<>>)>>
             /\ top' = NoTop
        ELSE \E shows \in showFeeds :
            /\ calls' = <<Call("getTopMovies", FALSE, movies.Results),
                          Call("getTopTVShows", shows.err, shows.Results)>>
            /\ IF shows.err
               THEN /\ sent' = <<Text(chatID, "top_shows_error")>>
                    /\ top' = NoTop
               ELSE Rank(chatID, Stamp(movies, "movie"), Stamp(shows, "tv"))

(***************************************************************************)
(* handleUpdate                                                             *)
(***************************************************************************)
\* the UPDATE of handleUpdate and what follows it
SetEpisode(chatID, title, episode, tmdbID) ==
    \E execOk \in BOOLEAN :
        /\ calls' = <<Call("QueryRow", FALSE, <<>>),
                      Call("Exec", ~execOk, <<>>)>>
        /\ IF ~execOk
           THEN /\ sent' = <<Text(chatID, "update_error")>>
                /\ UNCHANGED watched
           ELSE
             /\ watched' = Update(watched, episode, chatID, tmdbID)
             /\ sent' = <<Msg(chatID, "text", "updated", title, episode,
                              NoItem)>>

\* Lookup without the test of the kind
LookupAnyKind(chatID, title, episode) ==
    \E scanOk \in BOOLEAN :
        LET row == IF scanOk THEN QueryRow(watched, chatID, title) ELSE 0
        IN  IF row = 0
            THEN /\ sent' = <<Text(chatID, "not_found_in_list")>>
                 /\ calls' = <<Call("QueryRow", ~scanOk, <<>>)>>
                 /\ UNCHANGED watched
            ELSE SetEpisode(chatID, title, episode, watched[row].tmdb_id)

\* the SELECT of handleUpdate and what follows it: the Scan fails when no row
\* matches and when the query itself fails
Lookup(chatID, title, episode) ==
    \E scanOk \in BOOLEAN :
        LET row == IF scanOk THEN QueryRow(watched, chatID, title) ELSE 0
        IN  IF row = 0
            THEN /\ sent' = <<Text(chatID, "not_found_in_list")>>
                 /\ calls' = <<Call("QueryRow", ~scanOk, <<>>)>>
                 /\ UNCHANGED watched
            ELSE IF watched[row].media_type # "tv"
            THEN /\ sent' = <<Text(chatID, "not_a_show")>>
                 /\ calls' = <<Call("QueryRow", FALSE, <<>>)>>
                 /\ UNCHANGED watched
            ELSE SetEpisode(chatID, title, episode, watched[row].tmdb_id)

\* the title of /update: all fields but the last, joined by one space
TitleOf(parts) == Join(SubSeq(parts, 1, Len(parts) - 1), <<" ">>)

handleUpdate(chatID, query) ==
    LET parts == Fields(query)
        number == Atoi(parts[Len(parts)])
    IN  /\ UNCHANGED conversationStates
        /\ IF query = <<>> \/ Len(parts) < 2
           THEN /\ sent' = <<Text(chatID, "update_usage")>>
                /\ calls' = <<>>
                /\ UNCHANGED watched
           ELSE IF number.err \/ number.val < 0
           THEN /\ sent' = <<Text(chatID, "update_invalid_episode")>>
                /\ calls' = <<>>
                /\ UNCHANGED watched
           ELSE Lookup(chatID, TitleOf(parts), number.val)

(***************************************************************************)
(* main: the loop over the updates                                          *)
(***************************************************************************)
\* Route with the commands matched before the map is consulted
RouteCommandsFirst(states, chatID, text) ==
    IF text = <<"/start">> THEN "start"
    ELSE IF HasPrefix(text, <<"/add">>) THEN "handleAdd"
    ELSE IF text = <<"/list">> THEN "handleList"
    ELSE IF HasPrefix(text, <<"/search">>) THEN "handleSearch"
    ELSE IF text = <<"/top">> THEN "handleTop"
    ELSE IF HasPrefix(text, <<"/update">>) THEN "handleUpdate"
    ELSE IF chatID \in DOMAIN states /\ states[chatID].AwaitingEpisode
    THEN "handleEpisodeInput"
    ELSE "unknown"

\* which branch of the loop body takes the text of chatID
Route(states, chatID, text) ==
    IF chatID \in DOMAIN states /\ states[chatID].AwaitingEpisode
    THEN "handleEpisodeInput"
    ELSE IF text = <<"/start">> THEN "start"
    ELSE IF HasPrefix(text, <<"/add">>) THEN "handleAdd"
    ELSE IF text = <<"/list">> THEN "handleList"
    ELSE IF HasPrefix(text, <<"/search">>) THEN "handleSearch"
    ELSE IF text = <<"/top">> THEN "handleTop"
    ELSE IF HasPrefix(text, <<"/update">>) THEN "handleUpdate"
    ELSE "unknown"

\* an update that carries no message is skipped
NoMessage ==
    /\ last' = Handled(0, <<>>, "none")
    /\ calls' = <<>>
    /\ sent' = <<>>
    /\ listed' = <<>>
    /\ top' = NoTop
    /\ UNCHANGED <<conversationStates, watched>>
    /\ UNCHANGED loopVars

EpisodeInput(texts, times) ==
    \E chatID \in Users, text \in texts :
        /\ Route(conversationStates, chatID, text) = "handleEpisodeInput"
        /\ handleEpisodeInput(chatID, text, conversationStates[chatID],
                              times)
        /\ last' = Handled(chatID, text, "handleEpisodeInput")
        /\ listed' = <<>>
        /\ top' = NoTop
        /\ UNCHANGED loopVars

Start(texts) ==
    \E chatID \in Users, text \in texts :
        /\ Route(conversationStates, chatID, text) = "start"
        /\ sent' = <<Text(chatID, "help")>>
        /\ calls' = <<>>
        /\ last' = Handled(chatID, text, "start")
        /\ listed' = <<>>
        /\ top' = NoTop
        /\ UNCHANGED <<conversationStates, watched>>
        /\ UNCHANGED loopVars

Add(texts, times) ==
    \E chatID \in Users, text \in texts :
        /\ Route(conversationStates, chatID, text) = "handleAdd"
        /\ handleAdd(chatID, TrimPrefix(text, <<"/add", " ">>), times)
        /\ last' = Handled(chatID, text, "handleAdd")
        /\ listed' = <<>>
        /\ top' = NoTop
        /\ UNCHANGED loopVars

List(texts) ==
    \E chatID \in Users, text \in texts :
        /\ Route(conversationStates, chatID, text) = "handleList"
        /\ handleList(chatID)
        /\ last' = Handled(chatID, text, "handleList")
        /\ top' = NoTop
        /\ UNCHANGED loopVars

Search(texts) ==
    \E chatID \in Users, text \in texts :
        /\ Route(conversationStates, chatID, text) = "handleSearch"
        /\ handleSearch(chatID, TrimPrefix(text, <<"/search", " ">>))
        /\ last' = Handled(chatID, text, "handleSearch")
        /\ listed' = <<>>
        /\ top' = NoTop
        /\ UNCHANGED loopVars

\* the popular lists the catalog answers /top with
PopularMovies == {Failed, Response(FALSE, <<>>), Response(FALSE, <<MovieAB>>)}
PopularShows == {Failed, Response(FALSE, <<>>), Response(FALSE, <<ShowA2, ShowA1>>)}

Top(texts, movieFeeds, showFeeds) ==
    \E chatID \in Users, text \in texts :
        /\ Route(conversationStates, chatID, text) = "handleTop"
        /\ handleTop(chatID, movieFeeds, showFeeds)
        /\ last' = Handled(chatID, text, "handleTop")
        /\ listed' = <<>>
        /\ UNCHANGED loopVars

UpdateEpisode(texts) ==
    \E chatID \in Users, text \in texts :
        /\ Route(conversationStates, chatID, text) = "handleUpdate"
        /\ handleUpdate(chatID, TrimPrefix(text, <<"/update", " ">>))
        /\ last' = Handled(chatID, text, "handleUpdate")
        /\ listed' = <<>>
        /\ top' = NoTop
        /\ UNCHANGED loopVars

Unknown(texts) ==
    \E chatID \in Users, text \in texts :
        /\ Route(conversationStates, chatID, text) = "unknown"
        /\ sent' = <<Text(chatID, "unknown")>>
        /\ calls' = <<>>
        /\ last' = Handled(chatID, text, "unknown")
        /\ listed' = <<>>
        /\ top' = NoTop
        /\ UNCHANGED <<conversationStates, watched>>
        /\ UNCHANGED loopVars

\* the popular lists of SpecTop: len results of popularity (i * k + c) % PopMod,
\* every second one with a poster; the API reports no kind for them
Feed(len, k, c) ==
    Response(FALSE, [i \in 1..len |->
        Item(i, <<"A">>, <<"A">>, "", IF i % 2 = 0 THEN "/p" ELSE "",
             (i * k + c) % PopMod)])

Feeds ==
    {Failed} \cup {Feed(len, k, c) : len \in {0, 1, MaxTopLen - 1, MaxTopLen},
                                     k \in 0..2, c \in 0..1}


\* Spec: every text of the model, with the clock standing still
Next ==
    \/ NoMessage
    \/ EpisodeInput(Texts, Epoch)
    \/ Start(Texts)
    \/ Add(Texts, Epoch)
    \/ List(Texts)
    \/ Search(Texts)
    \/ Top(Texts, PopularMovies, PopularShows)
    \/ UpdateEpisode(Texts)
    \/ Unknown(Texts)

Spec == Init /\ [][Next]_vars

\* SpecList: adding and listing, with the clock free in 1..MaxTime
NextList ==
    \/ Add(ListTexts, Clock)
    \/ EpisodeInput(ListTexts, Clock)
    \/ List(ListTexts)

SpecList == Init /\ [][NextList]_vars

\* SpecTop: /top as the first message, over popular lists longer than TopLimit
NextTop == last.handler = "none" /\ Top(Texts, Feeds, Feeds)

SpecTop == Init /\ [][NextTop]_vars

(***************************************************************************)
(* main, step by step: the channel, the receive of the range loop, the call *)
(* of the handler and its return.  A handler that reaches the tracker or    *)
(* the store once is one step; handleEpisodeInput (INSERT, then delete) and *)
(* handleUpdate (SELECT, then UPDATE) are two.                              *)
(***************************************************************************)
\* how many updates arrive in a run of SpecLoop
MaxUpdates == 3

\* the texts of SpecLoop
LoopTexts ==
    {<<"/add", " ", "A">>, <<"5">>, <<"/list">>, <<"/top">>,
     <<"/search", " ", "A">>, <<"/update", " ", "A", " ", "1", "2">>}

\* the zero ConversationState, which the map lookup yields for a missing key
NoState == [AwaitingEpisode |-> FALSE, TMDBID |-> 0, Title |-> <<>>,
            MediaType |-> ""]

\* a handler call in progress: the update it handles, its arguments (the state
\* is passed by value), where it is, and the tmdb_id handleUpdate scanned
Activation(index, chatID, text, handler, state, pc, tmdbID) ==
    [index |-> index, chatID |-> chatID, text |-> text, handler |-> handler,
     state |-> state, pc |-> pc, tmdbID |-> tmdbID]

\* the call of position r returns
Return(r) ==
    running' = SubSeq(running, 1, r - 1) \o SubSeq(running, r + 1, Len(running))

\* an update arrives on the channel
Arrive ==
    /\ Len(updates) < MaxUpdates
    /\ \E chatID \in Users, text \in LoopTexts :
           updates' = Append(updates, [chatID |-> chatID, text |-> text])
    /\ UNCHANGED <<conversationStates, watched, last, calls, sent, listed,
                   top, taken, running>>

\* Dispatch with the handler started as a goroutine: the loop goes on to the
\* next update without waiting for the handler to return
DispatchSpawn ==
    /\ taken < Len(updates)
    /\ LET m == updates[taken + 1]
           handler == Route(conversationStates, m.chatID, m.text)
           state == IF m.chatID \in DOMAIN conversationStates
                    THEN conversationStates[m.chatID] ELSE NoState
       IN  /\ running' = Append(running,
                                Activation(taken + 1, m.chatID, m.text,
                                           handler, state, "entry", 0))
           /\ last' = Handled(m.chatID, m.text, handler)
    /\ taken' = taken + 1
    /\ calls' = <<>>
    /\ sent' = <<>>
    /\ listed' = <<>>
    /\ top' = NoTop
    /\ UNCHANGED <<conversationStates, watched, updates>>

\* one iteration of the range loop up to the call: the loop receives the
\* next update once the handler it called has returned (the calls are plain
\* function calls), reads the map and calls the handler
Dispatch ==
    /\ running = <<>>
    /\ taken < Len(updates)
    /\ LET m == updates[taken + 1]
           handler == Route(conversationStates, m.chatID, m.text)
           state == IF m.chatID \in DOMAIN conversationStates
                    THEN conversationStates[m.chatID] ELSE NoState
       IN  /\ running' = Append(running,
                                Activation(taken + 1, m.chatID, m.text,
                                           handler, state, "entry", 0))
           /\ last' = Handled(m.chatID, m.text, handler)
    /\ taken' = taken + 1
    /\ calls' = <<>>
    /\ sent' = <<>>
    /\ listed' = <<>>
    /\ top' = NoTop
    /\ UNCHANGED <<conversationStates, watched, updates>>

\* the handlers that reach the tracker or the store at most once, and the two
\* replies main sends itself
Run ==
    \E r \in DOMAIN running :
        LET a == running[r]
        IN  /\ a.pc = "entry"
            /\ a.handler \notin {"handleEpisodeInput", "handleUpdate"}
            /\ CASE a.handler = "handleAdd" ->
                       /\ handleAdd(a.chatID,
                                    TrimPrefix(a.text, <<"/add", " ">>), Epoch)
                       /\ UNCHANGED <<listed, top>>
                 [] a.handler = "handleList" ->
                       /\ handleList(a.chatID)
                       /\ UNCHANGED top
                 [] a.handler = "handleSearch" ->
                       /\ handleSearch(a.chatID,
                                       TrimPrefix(a.text, <<"/search", " ">>))
                       /\ UNCHANGED <<listed, top>>
                 [] a.handler = "handleTop" ->
                       /\ handleTop(a.chatID, PopularMovies, PopularShows)
                       /\ UNCHANGED listed
                 [] OTHER ->
                       /\ sent' = <<Text(a.chatID, IF a.handler = "start"
                                                   THEN "help" ELSE "unknown")>>
                       /\ calls' = <<>>
                       /\ UNCHANGED <<conversationStates, watched, listed, top>>
            /\ Return(r)
            /\ UNCHANGED <<updates, taken, last>>

\* handleEpisodeInput up to the INSERT
EpisodeInsert ==
    \E r \in DOMAIN running :
        LET a == running[r]
        IN  /\ a.handler = "handleEpisodeInput"
            /\ a.pc = "entry"
            /\ IF EpisodeInvalid(a.text)
               THEN /\ sent' = <<Text(a.chatID, "invalid_episode")>>
                    /\ calls' = <<>>
                    /\ Return(r)
                    /\ UNCHANGED watched
               ELSE \E execOk \in BOOLEAN :
                   /\ calls' = <<Call("Exec", ~execOk, <<>>)>>
                   /\ IF ~execOk
                      THEN /\ sent' = <<Text(a.chatID, "save_error")>>
                           /\ Return(r)
                           /\ UNCHANGED watched
                      ELSE /\ Len(watched) < MaxRows
                           /\ \E now \in Epoch :
                                  watched' = Insert(watched, a.state.Title,
                                                    a.state.MediaType,
                                                    a.state.TMDBID, a.chatID,
                                                    now, Atoi(a.text).val)
                           /\ sent' = <<>>
                           /\ running' = [running EXCEPT ![r].pc = "inserted"]
            /\ UNCHANGED <<conversationStates, listed, top, updates, taken,
                           last>>

\* handleEpisodeInput from the delete on
EpisodeDelete ==
    \E r \in DOMAIN running :
        LET a == running[r]
        IN  /\ a.handler = "handleEpisodeInput"
            /\ a.pc = "inserted"
            /\ conversationStates' = MapDelete(conversationStates, a.chatID)
            /\ \E results \in SearchResponses :
                   /\ calls' = Append(calls, Call("searchTMDB", results.err,
                                                  results.Results))
                   /\ sent' = Append(sent,
                                     Confirmation(a.chatID,
                                                  PosterFound(results, a.state),
                                                  "added_episode",
                                                  a.state.Title,
                                                  Atoi(a.text).val))
            /\ Return(r)
            /\ UNCHANGED <<watched, listed, top, updates, taken, last>>

\* handleUpdate up to the SELECT and the test of the kind
UpdateSelect ==
    \E r \in DOMAIN running :
        LET a == running[r]
            query == TrimPrefix(a.text, <<"/update", " ">>)
            parts == Fields(query)
            number == Atoi(parts[Len(parts)])
        IN  /\ a.handler = "handleUpdate"
            /\ a.pc = "entry"
            /\ IF query = <<>> \/ Len(parts) < 2
               THEN /\ sent' = <<Text(a.chatID, "update_usage")>>
                    /\ calls' = <<>>
                    /\ Return(r)
               ELSE IF number.err \/ number.val < 0
               THEN /\ sent' = <<Text(a.chatID, "update_invalid_episode")>>
                    /\ calls' = <<>>
                    /\ Return(r)
               ELSE \E scanOk \in BOOLEAN :
                   LET row == IF scanOk
                              THEN QueryRow(watched, a.chatID, TitleOf(parts))
                              ELSE 0
                   IN  IF row = 0
                       THEN /\ sent' = <<Text(a.chatID, "not_found_in_list")>>
                            /\ calls' = <<Call("QueryRow", ~scanOk, <<>>)>>
                            /\ Return(r)
                       ELSE IF watched[row].media_type # "tv"
                       THEN /\ sent' = <<Text(a.chatID, "not_a_show")>>
                            /\ calls' = <<Call("QueryRow", FALSE, <<>>)>>
                            /\ Return(r)
                       ELSE /\ sent' = <<>>
                            /\ calls' = <<Call("QueryRow", FALSE, <<>>)>>
                            /\ running' =
                                   [running EXCEPT
                                       ![r].pc = "selected",
                                       ![r].tmdbID = watched[row].tmdb_id]
            /\ UNCHANGED <<conversationStates, watched, listed, top, updates,
                           taken, last>>

\* handleUpdate from the UPDATE on
UpdateExec ==
    \E r \in DOMAIN running :
        LET a == running[r]
            parts == Fields(TrimPrefix(a.text, <<"/update", " ">>))
            episode == Atoi(parts[Len(parts)]).val
        IN  /\ a.handler = "handleUpdate"
            /\ a.pc = "selected"
            /\ \E execOk \in BOOLEAN :
                   /\ calls' = Append(calls, Call("Exec", ~execOk, <<>>))
                   /\ IF ~execOk
                      THEN /\ sent' = Append(sent, Text(a.chatID, "update_error"))
                           /\ UNCHANGED watched
                      ELSE /\ watched' = Update(watched, episode, a.chatID,
                                                a.tmdbID)
                           /\ sent' = Append(sent,
                                             Msg(a.chatID, "text", "updated",
                                                 TitleOf(parts), episode,
                                                 NoItem))
            /\ Return(r)
            /\ UNCHANGED <<conversationStates, listed, top, updates, taken,
                           last>>

NextLoop ==
    \/ Arrive
    \/ Dispatch
    \/ Run
    \/ EpisodeInsert
    \/ EpisodeDelete
    \/ UpdateSelect
    \/ UpdateExec

SpecLoop == Init /\ [][NextLoop]_vars

(***************************************************************************)
(* What the claims speak of, read off the last update handled              *)
(***************************************************************************)
\* chatID has a pending state whose awaiting-episode flag is set
Awaiting(states, chatID) ==
    chatID \in DOMAIN states /\ states[chatID].AwaitingEpisode

\* the text is no episode number: not an integer, or a negative one
NotAnEpisode(text) == Atoi(text).err \/ Atoi(text).val < 0

\* the search of the handler answered with at least one match
HasFirstMatch ==
    /\ calls # <<>>
    /\ calls[1].call = "searchTMDB"
    /\ ~calls[1].err
    /\ calls[1].Results # <<>>

FirstMatch == calls[1].Results[1]

\* a call to the store failed
StoreFailed ==
    \E i \in DOMAIN calls :
        calls[i].call \in {"Exec", "Query", "QueryRow"} /\ calls[i].err

\* the table is the table of before plus one row
OneRowRecorded ==
    /\ Len(watched) = Len(last.rows) + 1
    /\ SubSeq(watched, 1, Len(last.rows)) = last.rows

NewRow == watched[Len(watched)]

\* exactly one message went out, to the sender, of format msg
Replied(msg) ==
    /\ Len(sent) = 1
    /\ sent[1].to = last.chatID
    /\ sent[1].msg = msg

\* /update <title> <n> as the claims read it: the last field is n, the
\* fields before it are the title
UpdateParts == Fields(TrimPrefix(last.text, <<"/update", " ">>))
UpdateNumber == Atoi(UpdateParts[Len(UpdateParts)])
UpdateTitle == Join(SubSeq(UpdateParts, 1, Len(UpdateParts) - 1), <<" ">>)

\* handleUpdate took a text that carries a title and a non-negative integer
UpdateHandled ==
    /\ last.handler = "handleUpdate"
    /\ Len(UpdateParts) >= 2
    /\ ~UpdateNumber.err
    /\ UpdateNumber.val >= 0

\* the rows of the sender under the title, as they were before the update
OwnTitled ==
    {i \in DOMAIN last.rows :
        /\ last.rows[i].user_id = last.chatID
        /\ last.rows[i].title = UpdateTitle}

\* the entry matched by user and title: the first one recorded
Matched == CHOOSE i \in OwnTitled : \A j \in OwnTitled : i <= j

\* no row changed its current episode
EpisodesKept ==
    /\ Len(watched) = Len(last.rows)
    /\ \A i \in DOMAIN watched :
           watched[i].current_episode = last.rows[i].current_episode

(***************************************************************************)
(* C1                                                                       *)
(***************************************************************************)
\* C1: a text of a user whose pending state has the awaiting-episode flag set
\* is taken by handleEpisodeInput, whatever it begins with, and answered as an
\* episode answer; no command handler takes it.
C1_PendingTextIsAnEpisodeAnswer ==
    (last.handler # "none" /\ Awaiting(last.states, last.chatID))
        => /\ last.handler = "handleEpisodeInput"
           /\ Len(sent) = 1
           /\ sent[1].msg \in {"invalid_episode", "save_error", "added_episode"}

\* a pending user sent /list and it was taken as an episode answer
C1_Witness ==
    /\ last.text = <<"/list">>
    /\ Awaiting(last.states, last.chatID)
    /\ last.handler = "handleEpisodeInput"

(***************************************************************************)
(* C2                                                                       *)
(***************************************************************************)
\* the pending state of chatID was resolved by the update handled last
Resolved(chatID) ==
    /\ last.chatID = chatID
    /\ last.handler = "handleEpisodeInput"
    /\ ~NotAnEpisode(last.text)
    /\ OneRowRecorded

\* C2: /add whose first match is a movie leaves the conversation tracker as
\* it was; /add whose first match is a show leaves the sender with a pending
\* state that has the flag set and the id, name and kind of the match, and
\* records no entry; and a pending state stays as it is until its user's
\* valid episode answer is recorded.
C2_AddAndThePendingState ==
    /\ (last.handler = "handleAdd" /\ HasFirstMatch
            /\ FirstMatch.MediaType = "movie")
        => conversationStates = last.states
    /\ (last.handler = "handleAdd" /\ HasFirstMatch
            /\ FirstMatch.MediaType = "tv")
        => /\ last.chatID \in DOMAIN conversationStates
           /\ conversationStates[last.chatID] =
                  [AwaitingEpisode |-> TRUE, TMDBID |-> FirstMatch.ID,
                   Title |-> FirstMatch.Name, MediaType |-> "tv"]
           /\ watched = last.rows
    /\ \A u \in DOMAIN last.states :
           \/ Resolved(u)
           \/ /\ u \in DOMAIN conversationStates
              /\ conversationStates[u] = last.states[u]

\* /add matched a show while the other user was pending already
C2_Witness ==
    /\ last.handler = "handleAdd"
    /\ HasFirstMatch
    /\ FirstMatch.MediaType = "tv"
    /\ DOMAIN last.states # {}
    /\ DOMAIN conversationStates = Users

(***************************************************************************)
(* C3                                                                       *)
(***************************************************************************)
\* a valid episode answer of a pending user
EpisodeAnswered ==
    /\ last.handler = "handleEpisodeInput"
    /\ ~NotAnEpisode(last.text)

\* one entry of the sender with the pending title, kind and id and episode n
\* is recorded, the pending state is gone, the confirmation is sent
EpisodeRecorded ==
    /\ OneRowRecorded
    /\ NewRow.user_id = last.chatID
    /\ NewRow.title = last.states[last.chatID].Title
    /\ NewRow.media_type = last.states[last.chatID].MediaType
    /\ NewRow.tmdb_id = last.states[last.chatID].TMDBID
    /\ NewRow.current_episode = Atoi(last.text).val
    /\ last.chatID \notin DOMAIN conversationStates
    /\ Replied("added_episode")
    /\ sent[1].title = last.states[last.chatID].Title
    /\ sent[1].episode = Atoi(last.text).val

\* C3 as stated: every valid episode answer of a pending user records the
\* entry, clears the state and is confirmed.
C3_Original == EpisodeAnswered => EpisodeRecorded

\* C3, amended: a valid episode answer of a pending user records exactly one
\* entry (owner, pending title, kind and id, episode n), clears the pending
\* state and is confirmed, provided the INSERT succeeds; when the INSERT
\* fails, nothing is recorded, the state stays and the save error is sent.
C3_EpisodeAnswerRecorded ==
    EpisodeAnswered =>
        IF StoreFailed
        THEN /\ watched = last.rows
             /\ conversationStates = last.states
             /\ Replied("save_error")
        ELSE EpisodeRecorded

\* the answer 5 was recorded
C3_Witness ==
    /\ EpisodeAnswered
    /\ ~StoreFailed
    /\ NewRow.current_episode = 5
    /\ last.chatID \notin DOMAIN conversationStates

(***************************************************************************)
(* C4                                                                       *)
(***************************************************************************)
\* /add whose first match is a movie
MovieMatched ==
    /\ last.handler = "handleAdd"
    /\ HasFirstMatch
    /\ FirstMatch.MediaType = "movie"

\* one entry of the sender for the movie, with episode 0, is recorded, the
\* confirmation is sent, the sender has no pending state
MovieRecorded ==
    /\ OneRowRecorded
    /\ NewRow.user_id = last.chatID
    /\ NewRow.title = FirstMatch.Title
    /\ NewRow.media_type = "movie"
    /\ NewRow.tmdb_id = FirstMatch.ID
    /\ NewRow.current_episode = 0
    /\ Replied("added")
    /\ sent[1].title = FirstMatch.Title
    /\ last.chatID \notin DOMAIN conversationStates

\* C4 as stated: /add whose first match is a movie always records the entry.
C4_Original == MovieMatched => MovieRecorded

\* C4, amended: /add whose first match is a movie records exactly one entry
\* for the sender with current episode 0, confirms it and leaves the sender
\* without pending state, provided the INSERT succeeds; when the INSERT fails,
\* nothing is recorded, the save error is sent and no pending state is made.
C4_MovieRecorded ==
    MovieMatched =>
        IF StoreFailed
        THEN /\ watched = last.rows
             /\ Replied("save_error")
             /\ last.chatID \notin DOMAIN conversationStates
        ELSE MovieRecorded

\* a movie was recorded next to an earlier row
C4_Witness ==
    /\ MovieMatched
    /\ ~StoreFailed
    /\ Len(watched) = 2
    /\ sent[1].kind = "photo"

(***************************************************************************)
(* C5                                                                       *)
(***************************************************************************)
\* an invalid episode answer of a pending user
InvalidAnswered ==
    /\ last.handler = "handleEpisodeInput"
    /\ NotAnEpisode(last.text)

\* C5 as stated: an invalid answer changes nothing and is answered with the
\* prompt that /add sent (line 197).
C5_Original ==
    InvalidAnswered =>
        /\ conversationStates = last.states
        /\ watched = last.rows
        /\ sent = <<Msg(last.chatID, "text", "episode_prompt",
                        last.states[last.chatID].Title, NoEpisode, NoItem)>>

\* C5, amended: an invalid answer leaves the tracker and the table as they
\* were and is answered with the fixed invalid-number prompt (line 225), which
\* is not the prompt of /add and does not name the title; this holds for
\* every invalid answer, also after earlier invalid ones.
C5_InvalidAnswerKeepsState ==
    InvalidAnswered =>
        /\ conversationStates = last.states
        /\ watched = last.rows
        /\ sent = <<Text(last.chatID, "invalid_episode")>>

\* -1 was sent by a pending user
C5_Witness ==
    /\ InvalidAnswered
    /\ last.text = <<"-", "1">>
    /\ Awaiting(conversationStates, last.chatID)

(***************************************************************************)
(* C6                                                                       *)
(***************************************************************************)
\* every list a /list of the sender may now show has episode n on every show
\* line of a row that satisfies Chosen
ListedWithEpisode(Chosen(_)) ==
    \A rows \in Select(watched, last.chatID) :
        \A i \in DOMAIN rows :
            (rows[i].media_type = "tv" /\ Chosen(rows[i]))
                => Line(i, rows[i]).episode = UpdateNumber.val

HasTitle(row) == row.title = UpdateTitle

HasMatchedID(row) == row.tmdb_id = last.rows[Matched].tmdb_id

\* C6 as stated, in the runs where no call to the store fails: after
\* /update <title> <n> by a user who has a show entry under the title, /list
\* shows n for every show entry of that title.
C6_Original ==
    (UpdateHandled /\ ~StoreFailed
            /\ \E i \in OwnTitled : last.rows[i].media_type = "tv")
        => ListedWithEpisode(HasTitle)

\* C6, amended: after an /update <title> <n> that succeeds (the first entry
\* recorded under user and title is a show, the SELECT and the UPDATE do not
\* fail), a following /list shows n for that entry and for every show entry
\* of the user with the same catalog id; show entries of the same title and
\* another catalog id keep their episode.
C6_UpdateThenList ==
    (UpdateHandled /\ OwnTitled # {} /\ ~StoreFailed
            /\ last.rows[Matched].media_type = "tv")
        => /\ ListedWithEpisode(HasMatchedID)
           /\ Line(Matched, watched[Matched]).episode = UpdateNumber.val
           /\ \A i \in OwnTitled :
                  last.rows[i].tmdb_id # last.rows[Matched].tmdb_id
                      => watched[i] = last.rows[i]

\* the update reached two rows of the same catalog id
C6_Witness ==
    /\ UpdateHandled
    /\ ~StoreFailed
    /\ Cardinality(OwnTitled) = 2
    /\ \A i \in OwnTitled : /\ last.rows[i].media_type = "tv"
                           /\ last.rows[i].current_episode = 5
                           /\ watched[i].current_episode = 12

(***************************************************************************)
(* C7                                                                       *)
(***************************************************************************)
\* C7: /update <title> <n> of a user who has no entry of that title, whoever
\* else has one, is answered with "not found in your watched list" and
\* changes no row.
C7_UpdateNotFound ==
    (UpdateHandled /\ OwnTitled = {})
        => /\ Replied("not_found_in_list")
           /\ watched = last.rows

\* the title is in the list of the other user only
C7_Witness ==
    /\ UpdateHandled
    /\ OwnTitled = {}
    /\ \E i \in DOMAIN last.rows :
           /\ last.rows[i].user_id # last.chatID
           /\ last.rows[i].title = UpdateTitle
           /\ last.rows[i].media_type = "tv"

(***************************************************************************)
(* C8                                                                       *)
(***************************************************************************)
\* WrongKind when the matched entry is no show, with every episode kept;
\* the episode of the matched entry overwritten with n when it is a show
KindDecides ==
    IF last.rows[Matched].media_type # "tv"
    THEN Replied("not_a_show") /\ EpisodesKept
    ELSE watched[Matched].current_episode = UpdateNumber.val

\* C8 as stated: whenever user and title match an entry, its kind decides.
C8_Original == (UpdateHandled /\ OwnTitled # {}) => KindDecides

\* C8, amended: when user and title match an entry and neither the SELECT
\* nor the UPDATE fails, /update answers "not a show" and changes no episode
\* if the entry is not of kind show, and overwrites its current episode with
\* n if it is; when the SELECT or the UPDATE fails, no episode changes.
C8_UpdateKind ==
    (UpdateHandled /\ OwnTitled # {})
        => IF StoreFailed THEN EpisodesKept ELSE KindDecides

\* /update met a movie and refused
C8_Witness ==
    /\ UpdateHandled
    /\ OwnTitled # {}
    /\ ~StoreFailed
    /\ last.rows[Matched].media_type = "movie"
    /\ Replied("not_a_show")

\* /update met a show and overwrote its episode
C8_WitnessShow ==
    /\ UpdateHandled
    /\ OwnTitled # {}
    /\ ~StoreFailed
    /\ last.rows[Matched].current_episode = 5
    /\ watched[Matched].current_episode = 12

(***************************************************************************)
(* C9                                                                       *)
(***************************************************************************)
\* the rows of the sender
Own == {i \in DOMAIN watched : watched[i].user_id = last.chatID}

\* line i of the list shows row r
Shows(i, r) ==
    /\ listed[i].count = i
    /\ listed[i].title = watched[r].title
    /\ listed[i].watched_at = watched[r].watched_at
    /\ listed[i].kind = (IF watched[r].media_type = "tv" THEN "show"
                         ELSE "movie")
    /\ watched[r].media_type = "tv"
           => listed[i].episode = watched[r].current_episode

\* the list has one line for every row of the sender and none else, the
\* latest first; without rows it is the fixed "list is empty" text
ListedAllAndOnly ==
    /\ \E f \in [DOMAIN listed -> Own] :
           /\ \A r \in Own : \E i \in DOMAIN listed : f[i] = r
           /\ \A i, j \in DOMAIN listed : f[i] = f[j] => i = j
           /\ \A i \in DOMAIN listed : Shows(i, f[i])
    /\ \A i, j \in DOMAIN listed :
           i < j => listed[i].watched_at >= listed[j].watched_at
    /\ Replied(IF Own = {} THEN "list_empty" ELSE "list")

C9_WitnessEmpty ==
    /\ last.handler = "handleList"
    /\ ~StoreFailed
    /\ Own = {}
    /\ watched # <<>>
    /\ Replied("list_empty")

(***************************************************************************)
(* C10                                                                      *)
(***************************************************************************)
\* both popular lists were fetched
BothFetched == Len(calls) = 2 /\ ~calls[2].err

Total == Len(calls[1].Results) + Len(calls[2].Results)

\* the messages that show an item
Emitted == SelectSeq(sent, LAMBDA m : m.msg = "top_item")

Occurrences(x, seq) == Cardinality({i \in DOMAIN seq : seq[i] = x})

IsPermutation(a, b) ==
    /\ Len(a) = Len(b)
    /\ \A i \in DOMAIN a : Occurrences(a[i], a) = Occurrences(a[i], b)

\* the popular movies and the popular shows, kind stamped, one after another
Merged ==
    [i \in 1..Total |->
        IF i <= Len(calls[1].Results)
        THEN [calls[1].Results[i] EXCEPT !.MediaType = "movie"]
        ELSE [calls[2].Results[i - Len(calls[1].Results)]
                  EXCEPT !.MediaType = "tv"]]

\* C10: /top emits min(20, total) items, in non-increasing popularity; the
\* sorted list is a permutation of the merged one, the items emitted are its
\* first ones, and no item left out is more popular than one emitted.
C10_TopTwenty ==
    (last.handler = "handleTop" /\ BothFetched)
        => /\ Len(Emitted) = min(20, Total)
           /\ \A i, j \in DOMAIN Emitted :
                  i < j => Emitted[i].item.Popularity
                               >= Emitted[j].item.Popularity
           /\ Total > 0 =>
                  /\ top.merged = Merged
                  /\ IsPermutation(top.sorted, Merged)
                  /\ \A i \in DOMAIN Emitted :
                         /\ Emitted[i].item = top.sorted[i]
                         /\ Emitted[i].to = last.chatID
                  /\ \A k \in DOMAIN top.sorted :
                         k > Len(Emitted) =>
                             \A i \in DOMAIN Emitted :
                                 top.sorted[k].Popularity
                                     <= Emitted[i].item.Popularity

\* more than twenty items of unequal popularity were merged, twenty emitted
C10_Witness ==
    /\ last.handler = "handleTop"
    /\ BothFetched
    /\ Total > 20
    /\ Len(Emitted) = 20
    /\ Emitted[1].item.Popularity > Emitted[20].item.Popularity
    /\ top.sorted # top.merged

(***************************************************************************)
(* C11                                                                      *)
(***************************************************************************)
\* the users other than the sender of the update handled last
Others == Users \ {last.chatID}

\* the pending state of u is what it was: none, or the same one
StateKept(u) ==
    /\ (u \in DOMAIN conversationStates) = (u \in DOMAIN last.states)
    /\ u \in DOMAIN last.states => conversationStates[u] = last.states[u]

\* the rows of u are what they were, and no row of u was added
RowsKept(u) ==
    /\ Len(watched) >= Len(last.rows)
    /\ \A i \in DOMAIN last.rows :
           last.rows[i].user_id = u => watched[i] = last.rows[i]
    /\ \A i \in DOMAIN watched \ DOMAIN last.rows : watched[i].user_id # u

\* C11: whatever the handler of a message of user A did, on its success and
\* on its error paths, every other user B has the pending state B had before
\* (none, or the same one), the entries of B are unchanged, and no entry
\* owned by B was recorded.
C11_UserIsolation == \A u \in Others : StateKept(u) /\ RowsKept(u)

\* an /update of one user went through while the other user was pending and
\* owned an entry of the same title and catalog id, with another episode
C11_Witness ==
    /\ last.handler = "handleUpdate"
    /\ Replied("updated")
    /\ \E u \in Others :
           /\ u \in DOMAIN conversationStates
           /\ \E i \in DOMAIN watched :
                  /\ watched[i].user_id = u
                  /\ watched[i].title = UpdateTitle
                  /\ watched[i].tmdb_id = last.rows[Matched].tmdb_id
                  /\ watched[i].current_episode # UpdateNumber.val

(***************************************************************************)
(* C12                                                                      *)
(***************************************************************************)
\* the loop receives an update in this step
Receives == taken' # taken

\* a handler, or main itself, calls the catalog or the store, writes the
\* tracker or the table, or sends a reply in this step
Works ==
    /\ taken' = taken
    /\ \/ conversationStates' # conversationStates
       \/ watched' # watched
       \/ calls' # calls
       \/ sent' # sent

\* the handler calls in progress still have the tracker as it was read for
\* them: a call of handleEpisodeInput that has not deleted the state yet has
\* the state it was given in the map
TrackerAsRead ==
    \A r \in DOMAIN running :
        running[r].handler = "handleEpisodeInput"
            => /\ running[r].chatID \in DOMAIN conversationStates
               /\ conversationStates[running[r].chatID] = running[r].state

\* C12: the updates are handled one at a time and in arrival order by the one
\* loop: the loop receives an update only when no handler call is in
\* progress, the update it receives is the earliest one not handled yet, and
\* every step that calls the catalog or the store, writes the tracker or the
\* table or sends a reply belongs to the one call in progress, the call for
\* the update received last; so no call finds the tracker changed under it.
C12_OneAtATime ==
    [][/\ Receives =>
              /\ running = <<>>
              /\ taken' = taken + 1
              /\ Len(running') = 1
              /\ running'[1].index = taken'
              /\ running'[1].chatID = updates[taken'].chatID
              /\ running'[1].text = updates[taken'].text
       /\ Works =>
              /\ Len(running) = 1
              /\ running[1].index = taken
       /\ TrackerAsRead']_vars

\* the answer of a user is recorded and its state not deleted yet, while the
\* same answer of the same user waits on the channel
C12_Witness ==
    /\ Len(running) = 1
    /\ running[1].pc = "inserted"
    /\ taken < Len(updates)
    /\ updates[taken + 1] = [chatID |-> running[1].chatID,
                             text |-> running[1].text]

(***************************************************************************)
(* C13                                                                      *)
(***************************************************************************)
\* a call to the catalog failed while handleAdd, handleSearch or handleTop
\* handled the update
CatalogFailed ==
    /\ last.handler \in {"handleAdd", "handleSearch", "handleTop"}
    /\ \E i \in DOMAIN calls :
           /\ calls[i].call \in {"searchTMDB", "getTopMovies", "getTopTVShows"}
           /\ calls[i].err

\* nothing was recorded, no pending state was made, and the handler has
\* returned, so that the loop can receive the next update
Recovered ==
    /\ watched = last.rows
    /\ conversationStates = last.states
    /\ running = <<>>

\* the reply to a failed catalog call: nothing found after a failed search,
\* the fetch error of the popular list that failed after /top
FailureReply ==
    IF last.handler = "handleTop"
    THEN IF calls[1].err THEN "top_movies_error" ELSE "top_shows_error"
    ELSE "nothing_found"

\* C13 as stated: after a failed catalog call of /add, /search or /top the
\* sender is sent the nothing-found reply.
C13_Original == CatalogFailed => (Replied("nothing_found") /\ Recovered)

\* C13, amended: when a catalog call fails while /add or /search is handled,
\* the sender is sent the nothing-found reply; when one of the two popular
\* lists cannot be fetched while /top is handled, the sender is sent the fetch
\* error of that list; in all three, no entry is recorded, no pending state
\* is made and the handler returns to the loop.
C13_CatalogFailure == CatalogFailed => (Replied(FailureReply) /\ Recovered)

\* the popular shows could not be fetched, and the next update waits
C13_Witness ==
    /\ CatalogFailed
    /\ last.handler = "handleTop"
    /\ ~calls[1].err
    /\ taken < Len(updates)

\* the search of /add failed
C13_WitnessAdd ==
    /\ CatalogFailed
    /\ last.handler = "handleAdd"
    /\ last.rows # <<>>

(***************************************************************************)
(* C14                                                                      *)
(***************************************************************************)
\* a valid episode answer whose INSERT succeeded
EpisodeSaved ==
    /\ EpisodeAnswered
    /\ calls # <<>>
    /\ calls[1].call = "Exec"
    /\ ~calls[1].err

\* the poster re-fetch, which is the call after the INSERT
Refetch == calls[2]

\* the outcomes of the re-fetch
RefetchFailed == Refetch.err
RefetchEmpty == ~Refetch.err /\ Refetch.Results = <<>>
RefetchOtherID ==
    /\ ~Refetch.err
    /\ Refetch.Results # <<>>
    /\ Refetch.Results[1].ID # last.states[last.chatID].TMDBID
RefetchNoPoster ==
    /\ ~Refetch.err
    /\ Refetch.Results # <<>>
    /\ Refetch.Results[1].ID = last.states[last.chatID].TMDBID
    /\ Refetch.Results[1].PosterPath = ""

\* C14: after a valid episode answer whose INSERT succeeded, the poster is
\* fetched again and exactly one confirmation, naming the pending title and
\* the episode, is sent to the user whatever the re-fetch yields: as a text
\* when the catalog fails, finds nothing, finds another id first or has no
\* poster path, as a photo otherwise; the entry stays recorded and the
\* pending state stays removed.
C14_ConfirmedWhateverTheRefetch ==
    EpisodeSaved =>
        /\ Len(calls) = 2
        /\ Refetch.call = "searchTMDB"
        /\ Replied("added_episode")
        /\ sent[1].title = last.states[last.chatID].Title
        /\ sent[1].episode = Atoi(last.text).val
        /\ sent[1].kind =
               IF \/ RefetchFailed
                  \/ RefetchEmpty
                  \/ RefetchOtherID
                  \/ RefetchNoPoster
               THEN "text" ELSE "photo"
        /\ OneRowRecorded
        /\ NewRow.user_id = last.chatID
        /\ NewRow.current_episode = Atoi(last.text).val
        /\ last.chatID \notin DOMAIN conversationStates

\* the answer was recorded and confirmed although the re-fetch found a result
\* of another id, with a poster, first
C14_Witness ==
    /\ EpisodeSaved
    /\ RefetchOtherID
    /\ Refetch.Results[1].PosterPath # ""
    /\ Len(sent) = 1

\* the re-fetch failed; found nothing; found the show without a poster path;
\* found the poster
C14_WitnessFailed == EpisodeSaved /\ RefetchFailed /\ Len(sent) = 1
C14_WitnessEmpty == EpisodeSaved /\ RefetchEmpty /\ Len(sent) = 1
C14_WitnessNoPoster == EpisodeSaved /\ RefetchNoPoster /\ Len(sent) = 1
C14_WitnessPhoto == EpisodeSaved /\ Len(sent) = 1 /\ sent[1].kind = "photo"

(***************************************************************************)
(* C15                                                                      *)
(***************************************************************************)
\* the kinds of an entry: "movie", and "tv" for a show
Kinds == {"movie", "tv"}

\* C15: every entry of the table has a kind that is movie or show, whatever
\* kind the catalog reported for the first match of an /add search.
C15_KindIsMovieOrShow ==
    \A i \in DOMAIN watched : watched[i].media_type \in Kinds

(***************************************************************************)
(* C16                                                                      *)
(***************************************************************************)
\* C16: every entry of kind movie has current episode 0, whatever /add,
\* episode answers and /update commands were handled.
C16_MovieEpisodeIsZero ==
    \A i \in DOMAIN watched :
        watched[i].media_type = "movie" => watched[i].current_episode = 0

(***************************************************************************)
(* C17                                                                      *)
(***************************************************************************)
\* this step leaves the pending state of u as it is
PendingKept(u) ==
    /\ u \in DOMAIN conversationStates'
    /\ conversationStates'[u] = conversationStates[u]

\* this step is the handling of a valid episode answer of u, and records one
\* entry of u that carries the id, title and kind of the pending state of u
PendingRecorded(u) ==
    /\ last'.chatID = u
    /\ last'.handler = "handleEpisodeInput"
    /\ ~NotAnEpisode(last'.text)
    /\ u \notin DOMAIN conversationStates'
    /\ Len(watched') = Len(watched) + 1
    /\ SubSeq(watched', 1, Len(watched)) = watched
    /\ watched'[Len(watched')].user_id = u
    /\ watched'[Len(watched')].tmdb_id = conversationStates[u].TMDBID
    /\ watched'[Len(watched')].title = conversationStates[u].Title
    /\ watched'[Len(watched')].media_type = conversationStates[u].MediaType
    /\ watched'[Len(watched')].current_episode = Atoi(last'.text).val

\* this step is the handling of an /add of u, and gives u a pending state
\* with the id, name and kind of the first match
PendingCreated(u) ==
    /\ last'.chatID = u
    /\ last'.handler = "handleAdd"
    /\ calls' # <<>>
    /\ calls'[1].call = "searchTMDB"
    /\ calls'[1].Results # <<>>
    /\ conversationStates'[u] =
           [AwaitingEpisode |-> TRUE, TMDBID |-> calls'[1].Results[1].ID,
            Title |-> calls'[1].Results[1].Name,
            MediaType |-> calls'[1].Results[1].MediaType]

\* C17: a pending state is made by an /add of its user, with the id, name and
\* kind of the first match; from then on every step (a command or an invalid
\* answer of that user, a message of another user, an update without a
\* message) leaves it as it is, except the handling of a valid episode answer
\* of that same user, which removes it and records one entry with the id,
\* title and kind the state holds.
C17_OnlyAValidAnswerLeaves ==
    [][/\ \A u \in DOMAIN conversationStates :
              PendingKept(u) \/ PendingRecorded(u)
       /\ \A u \in DOMAIN conversationStates' \ DOMAIN conversationStates :
              PendingCreated(u)]_vars

\* a pending user sent /add A, which was answered as an invalid episode and
\* left the pending state as it was, while the other user was pending too
C17_Witness ==
    /\ last.handler = "handleEpisodeInput"
    /\ last.text = <<"/add", " ", "A">>
    /\ DOMAIN last.states = Users
    /\ conversationStates = last.states

(***************************************************************************)
(* C18                                                                      *)
(***************************************************************************)
\* /update <title> <n> went through: the UPDATE succeeded
UpdateSucceeded == UpdateHandled /\ Replied("updated")

\* C18: after a successful /update <title> <n> of a user, the only change in
\* the table is the current episode of entries of that user whose title is
\* <title>: every other entry is as it was, and the entries of that title
\* differ from what they were in the current episode at most.
C18_UpdateChangesTheTitleOnly ==
    UpdateSucceeded =>
        /\ Len(watched) = Len(last.rows)
        /\ \A i \in DOMAIN watched :
               IF i \in OwnTitled
               THEN watched[i] =
                        [last.rows[i] EXCEPT
                            !.current_episode = watched[i].current_episode]
               ELSE watched[i] = last.rows[i]

(***************************************************************************)
(* C19                                                                      *)
(***************************************************************************)
\* what follows "/add " in the text; the text "/add" alone has no such
\* prefix and is its own query
AddQuery == TrimPrefix(last.text, <<"/add", " ">>)

\* /add with the empty query
AddEmpty == last.handler = "handleAdd" /\ AddQuery = <<>>

\* /add whose search yields no match
AddNoMatch ==
    /\ last.handler = "handleAdd"
    /\ calls # <<>>
    /\ calls[1].call = "searchTMDB"
    /\ calls[1].Results = <<>>

\* nothing was recorded and the sender has no pending state, as before
StillNormal ==
    /\ watched = last.rows
    /\ conversationStates = last.states
    /\ last.chatID \notin DOMAIN conversationStates

\* C19 as stated: /add with an empty query, and /add whose search yields no
\* match, are answered with the nothing-found reply and change nothing.
C19_Original ==
    (AddEmpty \/ AddNoMatch) => (Replied("nothing_found") /\ StillNormal)

\* C19, amended: /add with an empty query is answered with the usage text of
\* /add, without a search; /add whose search yields no match is answered
\* with the nothing-found reply; both record no entry and leave the sender
\* without a pending state.
C19_AddNothing ==
    /\ AddEmpty => (Replied("add_usage") /\ calls = <<>> /\ StillNormal)
    /\ AddNoMatch => (Replied("nothing_found") /\ StillNormal)

\* "/add " with nothing after the space, sent while the table had a row and
\* the other user was pending
C19_Witness ==
    /\ AddEmpty
    /\ last.text = <<"/add", " ">>
    /\ last.rows # <<>>
    /\ DOMAIN last.states # {}

\* the search of /add found nothing; the text "/add" alone was searched
C19_WitnessNoMatch == AddNoMatch /\ ~calls[1].err
C19_WitnessBare == last.handler = "handleAdd" /\ last.text = <<"/add">> /\ calls # <<>>

(***************************************************************************)
(* C20                                                                      *)
(***************************************************************************)
\* the INSERT of the handler failed
WriteFailed ==
    \E i \in DOMAIN calls : calls[i].call = "Exec" /\ calls[i].err

\* the INSERT of a valid episode answer failed
AnswerNotSaved == EpisodeAnswered /\ WriteFailed

\* the INSERT of a movie /add failed
MovieNotSaved == last.handler = "handleAdd" /\ WriteFailed

\* C20: when the INSERT of a valid episode answer fails, no entry is
\* recorded, the save-failure message is the one reply, the poster is not
\* fetched, and the pending state of the user is the one it was, so that the
\* next text of the user is taken as an episode answer again; when the INSERT
\* of a movie /add fails, no entry is recorded, the save-failure message is
\* the one reply and the sender has no pending state.
C20_FailedWrite ==
    /\ AnswerNotSaved =>
           /\ watched = last.rows
           /\ Replied("save_error")
           /\ Len(calls) = 1
           /\ conversationStates = last.states
           /\ Awaiting(conversationStates, last.chatID)
           /\ \A text \in Texts :
                  Route(conversationStates, last.chatID, text)
                      = "handleEpisodeInput"
    /\ MovieNotSaved =>
           /\ watched = last.rows
           /\ Replied("save_error")
           /\ conversationStates = last.states
           /\ last.chatID \notin DOMAIN conversationStates

\* the INSERT of the answer 5 failed while the table held a row
C20_Witness ==
    /\ AnswerNotSaved
    /\ last.text = <<"5">>
    /\ watched # <<>>

\* the INSERT of a movie /add failed while the other user was pending
C20_WitnessMovie == MovieNotSaved /\ DOMAIN conversationStates # {}

(***************************************************************************)
(* C21                                                                      *)
(***************************************************************************)
\* the text is none of the commands: main matches /start, /list and /top
\* whole, and /add, /search and /update as prefixes
NoCommand(text) ==
    /\ text \notin {<<"/start">>, <<"/list">>, <<"/top">>}
    /\ ~HasPrefix(text, <<"/add">>)
    /\ ~HasPrefix(text, <<"/search">>)
    /\ ~HasPrefix(text, <<"/update">>)

\* the sender had no pending state when the text arrived
InNormal == last.handler # "none" /\ ~Awaiting(last.states, last.chatID)

\* the text is /start, /list, /search ..., /top, or none of the commands
ReadOnlyText ==
    \/ last.text \in {<<"/start">>, <<"/list">>, <<"/top">>}
    \/ HasPrefix(last.text, <<"/search">>)
    \/ NoCommand(last.text)

\* C21: handled for a user without pending state, /start, /list,
\* /search <query>, /top and every text that is none of the commands leave
\* the tracker and the table as they were; a text that is none of the
\* commands is answered with the unknown-command reply and nothing else, and
\* no catalog or store call is made for it.
C21_ReadOnly ==
    /\ (InNormal /\ ReadOnlyText) =>
           /\ conversationStates = last.states
           /\ watched = last.rows
    /\ (InNormal /\ NoCommand(last.text)) =>
           /\ sent = <<Text(last.chatID, "unknown")>>
           /\ calls = <<>>

\* /search A showed results to a user with entries while the other user was
\* pending
C21_Witness ==
    /\ InNormal
    /\ last.text = <<"/search", " ", "A">>
    /\ Len(sent) > 1
    /\ \E i \in DOMAIN last.rows : last.rows[i].user_id = last.chatID
    /\ DOMAIN last.states # {}

\* a number sent without pending state got the unknown-command reply
C21_WitnessUnknown ==
    /\ InNormal
    /\ last.text = <<"5">>
    /\ last.rows # <<>>

(***************************************************************************)
(* C22                                                                      *)
(***************************************************************************)
\* the loop took a text message: the update handled last carried one
Taken == last.handler # "none"

\* C22: for every text message the loop took, whether its sender was pending
\* or not and whichever path the handler went, at least one message (a text
\* or a photo) was handed to bot.Send before the handling ended, and
\* everything sent while it was handled went to the sender.
C22_EveryMessageIsAnswered ==
    Taken =>
        /\ sent # <<>>
        /\ \A i \in DOMAIN sent :
               /\ sent[i].to = last.chatID
               /\ sent[i].kind \in {"text", "photo"}

\* the UPDATE of /update failed and the sender was told so
C22_Witness ==
    /\ last.handler = "handleUpdate"
    /\ Len(calls) = 2
    /\ calls[2].err
    /\ sent # <<>>

\* other short paths: /list of a user without entries, a text of a pending
\* user, /top with nothing popular
C22_WitnessEmptyList ==
    /\ last.handler = "handleList"
    /\ calls # <<>> /\ ~calls[1].err
    /\ listed = <<>>
    /\ sent # <<>>
C22_WitnessPending == Taken /\ Awaiting(last.states, last.chatID) /\ sent # <<>>
C22_WitnessTopEmpty ==
    /\ last.handler = "handleTop"
    /\ Len(calls) = 2 /\ ~calls[2].err
    /\ top = NoTop
    /\ sent # <<>>
====
